---- MODULE Spec2Model ----
(***************************************************************************)
(* Model of lib/swagger/paths.js: build() normalises the route            *)
(* descriptors, buildRoutes() turns each normalised route into a swagger   *)
(* operation and merges it into the path map.                              *)
(*                                                                         *)
(* JavaScript values are tagged records; strings the code inspects         *)
(* character by character (paths, methods, names, payload kinds) are       *)
(* tuples of one-character strings, media types are atoms.                 *)
(***************************************************************************)
EXTENDS Integers, Sequences, FiniteSets, TLC

VARIABLES settings, routes, routesData, pc, i, pathObj, log, swagger

vars == <<settings, routes, routesData, pc, i, pathObj, log, swagger>>

(* ---------------------------------------------------------------------- *)
(* JavaScript values                                                       *)
(* ---------------------------------------------------------------------- *)
Undefined == [t |-> "undefined"]
Null == [t |-> "null"]
Bool(b) == [t |-> "boolean", v |-> b]
Num(n) == [t |-> "number", v |-> n]
Str(s) == [t |-> "string", v |-> s]
Arr(a) == [t |-> "array", v |-> a]
Obj(o) == [t |-> "object", v |-> o]

\* JavaScript truthiness, as used by every `a || b` and `if (a)` of the file
Truthy(x) ==
  CASE x.t = "undefined" -> FALSE
    [] x.t = "null" -> FALSE
    [] x.t = "boolean" -> x.v
    [] x.t = "number" -> x.v # 0
    [] x.t = "string" -> Len(x.v) > 0
    [] OTHER -> TRUE

\* a || b
Or(a, b) == IF Truthy(a) THEN a ELSE b

(* ---------------------------------------------------------------------- *)
(* Strings as character tuples                                             *)
(* ---------------------------------------------------------------------- *)
UpperChars == <<"A","B","C","D","E","F","G","H","I","J","K","L","M",
                "N","O","P","Q","R","S","T","U","V","W","X","Y","Z">>
LowerChars == <<"a","b","c","d","e","f","g","h","i","j","k","l","m",
                "n","o","p","q","r","s","t","u","v","w","x","y","z">>

LowerChar(c) ==
  IF \E k \in 1..Len(UpperChars) : UpperChars[k] = c
  THEN LowerChars[CHOOSE k \in 1..Len(UpperChars) : UpperChars[k] = c]
  ELSE c

UpperChar(c) ==
  IF \E k \in 1..Len(LowerChars) : LowerChars[k] = c
  THEN UpperChars[CHOOSE k \in 1..Len(LowerChars) : LowerChars[k] = c]
  ELSE c

\* String.prototype.toLowerCase / toUpperCase
ToLowerCase(s) == [k \in 1..Len(s) |-> LowerChar(s[k])]
ToUpperCase(s) == [k \in 1..Len(s) |-> UpperChar(s[k])]

\* sub occurs in s at 1-based position k
OccursAt(s, sub, k) ==
  /\ k >= 1
  /\ k + Len(sub) - 1 <= Len(s)
  /\ SubSeq(s, k, k + Len(sub) - 1) = sub

\* String.prototype.indexOf(sub) > -1
Contains(s, sub) == \E k \in 1..(Len(s) + 1) : OccursAt(s, sub, k)

\* String.prototype.replace(pattern, replacement) with a string pattern:
\* only the first occurrence is replaced
ReplaceFirst(s, pattern, replacement) ==
  IF Contains(s, pattern)
  THEN LET k == CHOOSE k \in 1..(Len(s) + 1) :
                  /\ OccursAt(s, pattern, k)
                  /\ \A j \in 1..(k - 1) : ~OccursAt(s, pattern, j)
       IN SubSeq(s, 1, k - 1) \o replacement \o SubSeq(s, k + Len(pattern), Len(s))
  ELSE s

\* string literals of the source
S_json == <<"j","s","o","n">>
S_accept == <<"a","c","c","e","p","t">>
S_contentType == <<"c","o","n","t","e","n","t","-","t","y","p","e">>
S_swaggerType == <<"s","w","a","g","g","e","r","T","y","p","e">>
S_hiddenModel == <<"H","i","d","d","e","n"," ","M","o","d","e","l">>
S_body == <<"b","o","d","y">>
S_slash == <<"/">>
FormUrlEncoded == "application/x-www-form-urlencoded"
MultipartFormData == "multipart/form-data"

(* ---------------------------------------------------------------------- *)
(* Validation schemas (Joi) and the collaborators of paths.js              *)
(* ---------------------------------------------------------------------- *)
\* a child of an object schema; required is Undefined, Bool(TRUE) or
\* Bool(FALSE); enum is Undefined or Arr; default is Undefined or Str;
\* meta is the set of meta keys (S_swaggerType marks a file upload)
Field(name, type, required, enum, default, meta) ==
  [name |-> name, type |-> type, required |-> required, enum |-> enum,
   default |-> default, meta |-> meta]

\* Joi.object(children).label(label), Joi.string(), a custom validator
JoiObject(children, label) ==
  [t |-> "joi", type |-> "object", children |-> children, label |-> label]
JoiString == [t |-> "joi", type |-> "string", children |-> <<>>, label |-> <<>>]
Function == [t |-> "function"]

\* Utilities.isFunction
IsFunction(x) == x.t = "function"

\* Utilities.toJoiObject: a plain object of fields is wrapped in Joi.object
ToJoiObject(x) ==
  IF Truthy(x) /\ x.t = "object" THEN JoiObject(x.v, <<>>) ELSE x

\* Utilities.hasJoiChildren
HasJoiChildren(joiObj) == joiObj.t = "joi" /\ Len(joiObj.children) > 0

\* Utilities.startsWith
StartsWith(s, prefix) == OccursAt(s, prefix, 1)

\* Utilities.replaceInPath: every replacement rule whose replaceIn is one of
\* applyTo, or "all", rewrites the path in turn
RECURSIVE ReplaceInPath(_, _, _)
ReplaceInPath(path, applyTo, options) ==
  IF options = <<>> THEN path
  ELSE LET option == Head(options)
           next == IF option.replaceIn \in applyTo \/ option.replaceIn = "all"
                   THEN ReplaceFirst(path, option.pattern, option.replacement)
                   ELSE path
       IN ReplaceInPath(next, applyTo, Tail(options))

\* Utilities.createId: lowercase method followed by the word characters of
\* the path
WordChars(s) == SelectSeq(s, LAMBDA c : c \notin {"/", ":", "?", "{", "}", "-"})
CreateId(method, path) == ToLowerCase(method) \o WordChars(path)

\* Utilities.sortFirstItem: firstItem first, the rest in their order
SortFirstItem(array, firstItem) ==
  IF Truthy(firstItem)
  THEN <<firstItem.v>> \o SelectSeq(array, LAMBDA item : item # firstItem.v)
  ELSE array

\* Utilities.deleteEmptyProperties: drops undefined, null, [] and {}
IsEmptyProperty(x) ==
  \/ x.t \in {"undefined", "null"}
  \/ x.t = "array" /\ Len(x.v) = 0
  \/ x.t = "object" /\ DOMAIN x.v = {}
DeleteEmptyProperties(obj) ==
  [k \in {key \in DOMAIN obj : ~IsEmptyProperty(obj[key])} |-> obj[k]]

\* properties.parseProperty for the root of a schema: the property tree
\* keeps the children; with useDefinitions the object shape is registered
\* under its label and referenced
DefinitionName(joiObj) ==
  IF Len(joiObj.label) > 0 THEN joiObj.label ELSE <<"M","o","d","e","l">>
ParseProperty(joiObj, parameterType, useDefinitions, isAlt) ==
  [type |-> joiObj.type,
   children |-> joiObj.children,
   ref |-> IF useDefinitions /\ joiObj.type = "object"
           THEN Str(DefinitionName(joiObj)) ELSE Undefined]

\* one swagger parameter per child of the property tree
FieldParameter(f, parameterType) ==
  LET base == [name |-> f.name, in |-> parameterType, type |-> f.type]
      req == IF f.required.t = "undefined" THEN base
             ELSE base @@ [required |-> f.required.v]
      enm == IF f.enum.t = "undefined" THEN req ELSE req @@ [enum |-> f.enum.v]
  IN IF f.default.t = "undefined" THEN enm ELSE enm @@ [default |-> f.default]

\* Parameters.fromProperties: a single parameter for a body, else one per
\* child in order
FromProperties(properties, parameterType) ==
  IF parameterType = "body"
  THEN << [name |-> S_body, in |-> "body",
           schema |-> IF properties.ref.t = "undefined"
                      THEN [type |-> properties.type]
                      ELSE [ref |-> properties.ref.v]] >>
  ELSE [k \in 1..Len(properties.children) |->
          FieldParameter(properties.children[k], parameterType)]

\* responses.build: the responses map of one operation
ResponsesBuild(responses, responseSchema, responseStatus) ==
  Obj([default |-> "Successful"])

\* JSON.stringify(schema).indexOf(marker) > -1: the serialisation holds the
\* field names, the meta keys and the label
Stringified(schema, marker) ==
  IF schema.t = "joi"
  THEN \/ Contains(schema.label, marker)
       \/ \E k \in 1..Len(schema.children) :
            \/ Contains(schema.children[k].name, marker)
            \/ \E m \in schema.children[k].meta : Contains(m, marker)
  ELSE FALSE

(* ---------------------------------------------------------------------- *)
(* Diagnostics: settings.log(tags, message)                                *)
(* ---------------------------------------------------------------------- *)
WarningTags == <<"validation", "warning">>
ErrorTags == <<"validation", "error">>
MsgFunctionNotSupported ==
  "Using a Joi.function for a query, header or payload is not supported."
MsgFunctionRemoved ==
  "Using a Joi.function for a params is not supported and has been removed."
MsgOptionalParam ==
  "params parameter is set as optional. This will work in the UI, but is invalid in the swagger spec"
MsgNotJoiObject ==
  "route parameter was set, but not as a Joi.object() with child properties"

\* a logged diagnostic: the message text, and the path and the parameter
\* name or type the message is built from (empty when it names none)
LogEntry(tags, text, path, subject) ==
  [tags |-> tags, text |-> text, path |-> path, subject |-> subject]

(* ---------------------------------------------------------------------- *)
(* build: the route normaliser                                            *)
(* ---------------------------------------------------------------------- *)
\* property access: a missing property reads as undefined
Get(obj, key) == IF key \in DOMAIN obj THEN obj[key] ELSE Undefined

\* Hoek.reach(route, 'validate.<key>')
ReachValidate(route, key) ==
  IF Truthy(Get(route, "validate")) THEN Get(route.validate.v, key) ELSE Undefined

\* the routeData literal of build
RouteLiteral(route) ==
  [path |-> route.path,
   method |-> ToUpperCase(route.method),
   id |-> Get(route, "id"),
   description |-> Get(route, "description"),
   summary |-> Get(route, "summary"),
   tags |-> Get(route, "tags"),
   queryParams |-> Or(ReachValidate(route, "query"), Null),
   pathParams |-> Or(ReachValidate(route, "params"), Null),
   payloadParams |-> Or(ReachValidate(route, "payload"), Null),
   headerParams |-> Or(ReachValidate(route, "headers"), Null),
   responseSchema |-> Undefined,
   responseStatus |-> Undefined,
   consumes |-> Or(Get(route, "comsumes"), Null),
   produces |-> Or(Get(route, "produces"), Null),
   responses |-> Or(Get(route, "responses"), Null),
   payloadType |-> Or(Get(route, "payloadType"), Null),
   security |-> Or(Get(route, "security"), Null),
   order |-> Or(Get(route, "order"), Null),
   deprecated |-> Or(Get(route, "deprecated"), Null),
   groups |-> Get(route, "group")]

\* the four locations, in the order build visits them
Locations == <<"queryParams", "pathParams", "headerParams", "payloadParams">>

\* faulty variant: a function for the path is given a placeholder like the others
SwapFunctionPlaceholder(property, value) ==
  IF IsFunction(value)
  THEN IF property = "payloadParams"
       THEN JoiObject(<<>>, S_hiddenModel)
       ELSE JoiObject(<<Field(S_hiddenModel, "string", Undefined,
                              Undefined, Undefined, {})>>, <<>>)
  ELSE ToJoiObject(value)

\* the schema build leaves in routeData[property]
SwapFunction(property, value) ==
  IF IsFunction(value)
  THEN IF property # "pathParams"
       THEN IF property = "payloadParams"
            THEN JoiObject(<<>>, S_hiddenModel)
            ELSE JoiObject(<<Field(S_hiddenModel, "string", Undefined,
                                   Undefined, Undefined, {})>>, <<>>)
       ELSE Null
  ELSE ToJoiObject(value)

\* the diagnostics build logs for routeData[property]
SwapFunctionLog(property, value) ==
  IF IsFunction(value)
  THEN IF property # "pathParams"
       THEN <<LogEntry(WarningTags, MsgFunctionNotSupported, <<>>, <<>>)>>
       ELSE <<LogEntry(ErrorTags, MsgFunctionRemoved, <<>>, <<>>)>>
  ELSE <<>>

\* one route through the map callback of build
NormalizeRoute(route, s) ==
  LET lit == RouteLiteral(route)
      replaced == [lit EXCEPT !.path =
                     ReplaceInPath(lit.path, {"endpoints"}, s.pathReplacements)]
  IN [k \in DOMAIN replaced |->
        IF \E n \in 1..Len(Locations) : Locations[n] = k
        THEN SwapFunction(k, replaced[k])
        ELSE replaced[k]]

NormalizeRouteLog(route) ==
  LET lit == RouteLiteral(route)
  IN SwapFunctionLog(Locations[1], lit[Locations[1]])
     \o SwapFunctionLog(Locations[2], lit[Locations[2]])
     \o SwapFunctionLog(Locations[3], lit[Locations[3]])
     \o SwapFunctionLog(Locations[4], lit[Locations[4]])

RECURSIVE NormalizeLog(_)
NormalizeLog(rs) ==
  IF rs = <<>> THEN <<>>
  ELSE NormalizeRouteLog(Head(rs)) \o NormalizeLog(Tail(rs))

\* routes.map(...)
NormalizeRoutes(rs, s) == [k \in 1..Len(rs) |-> NormalizeRoute(rs[k], s)]

(* ---------------------------------------------------------------------- *)
(* buildRoutes: helpers                                                    *)
(* ---------------------------------------------------------------------- *)
\* internals.getJOIObj
GetJOIObj(route, name) == route[name]

\* internals.overload
Overload(base, priority) == Or(priority, base)

\* internals.hasFileType
HasFileType(route) == Stringified(route.payloadParams, S_swaggerType)

\* internals.removeBasePath
RemoveBasePath(path, basePath, pathReplacements) ==
  IF basePath # S_slash /\ StartsWith(path, basePath)
  THEN ReplaceInPath(ReplaceFirst(path, basePath, <<>>), {"endpoints"},
                     pathReplacements)
  ELSE path

\* getDefaultStructures
GetDefaultStructures == [properties |-> <<>>, parameters |-> <<>>]

\* getSwaggerStructures
GetSwaggerStructures(joiObj, parameterType, useDefinitions, isAlt) ==
  IF Truthy(joiObj)
  THEN LET outProperties ==
             ParseProperty(joiObj, parameterType, useDefinitions, isAlt)
       IN [properties |-> outProperties,
           parameters |-> FromProperties(outProperties, parameterType)]
  ELSE [properties |-> <<>>, parameters |-> <<>>]

\* testParameterError: the diagnostics it logs
TestParameterError(joiObj, parameterType, path) ==
  IF Truthy(joiObj) /\ ~HasJoiChildren(joiObj)
  THEN <<LogEntry(ErrorTags, MsgNotJoiObject, path, parameterType)>>
  ELSE <<>>

\* faulty variant: the header name is compared without lowercasing it
HasContentTypeHeaderExact(parameters) ==
  \E k \in 1..Len(parameters) :
    /\ parameters[k].in = "header"
    /\ parameters[k].name = S_contentType

\* internals.hasContentTypeHeader
HasContentTypeHeader(parameters) ==
  \E k \in 1..Len(parameters) :
    /\ parameters[k].in = "header"
    /\ ToLowerCase(parameters[k].name) = S_contentType

\* faulty variant: the placeholder is not required to end at the name
RegexpTestOpenEnded(name, path) ==
  \E k \in 1..Len(path) : OccursAt(path, <<"/", ":">> \o name, k)

\* new RegExp(`/:${name}($|/)`).test(path), for a name of word characters
RegexpTest(name, path) ==
  \E k \in 1..Len(path) :
    /\ OccursAt(path, <<"/", ":">> \o name, k)
    /\ LET after == k + 2 + Len(name)
       IN after = Len(path) + 1 \/ (after <= Len(path) /\ path[after] = "/")

(* ---------------------------------------------------------------------- *)
(* buildRoutes: one route                                                  *)
(* ---------------------------------------------------------------------- *)
\* the path key of the route
ResolvedPath(route, s) == RemoveBasePath(route.path, s.basePath, s.pathReplacements)

\* route.notes.join(...) of a missing notes, and toLowerCase of a payload
\* type that is no string, raise a TypeError
DescriptionThrows(route) ==
  route.description.t = "array" /\ Get(route, "notes").t # "array"
PayloadTypeThrows(route, s) ==
  Overload(s.payloadType, route.payloadType).t # "string"
RouteThrows(route, s) == DescriptionThrows(route) \/ PayloadTypeThrows(route, s)

\* Array.prototype.join(separator) over an array of strings
RECURSIVE Join(_, _)
Join(items, separator) ==
  IF items = <<>> THEN ""
  ELSE IF Len(items) = 1 THEN items[1]
       ELSE items[1] \o separator \o Join(Tail(items), separator)

\* out.description: an array description is replaced by the joined notes
OutDescription(route) ==
  IF route.description.t = "array"
  THEN Str(Join(Get(route, "notes").v, "<br/><br/>"))
  ELSE route.description

\* faulty variant: the payload type is compared without lowercasing it
IsJsonPayloadExact(route, s) ==
  Overload(s.payloadType, route.payloadType).v = S_json

\* the payload is built as JSON
IsJsonPayload(route, s) ==
  ToLowerCase(Overload(s.payloadType, route.payloadType).v) = S_json

\* payloadStructures
PayloadStructures(route, s) ==
  LET payloadJoi == GetJOIObj(route, "payloadParams")
  IN IF IsJsonPayload(route, s)
     THEN GetSwaggerStructures(payloadJoi, "body", TRUE, FALSE)
     ELSE IF HasJoiChildren(payloadJoi)
          THEN GetSwaggerStructures(payloadJoi, "formData", FALSE, FALSE)
          ELSE GetDefaultStructures

PayloadLog(route, s) ==
  LET payloadJoi == GetJOIObj(route, "payloadParams")
  IN IF ~IsJsonPayload(route, s) /\ ~HasJoiChildren(payloadJoi)
     THEN TestParameterError(payloadJoi, "payload form-urlencoded",
                             ResolvedPath(route, s))
     ELSE <<>>

\* out.consumes after the payload and the file type have been looked at
DetectedConsumes(route, s) ==
  IF HasFileType(route) THEN Arr(<<MultipartFormData>>)
  ELSE IF IsJsonPayload(route, s) THEN Arr(<<>>)
       ELSE Arr(<<FormUrlEncoded>>)

\* out.consumes once the user defined values have been applied
DeclaredConsumes(route, s) ==
  IF Truthy(s.consumes) \/ Truthy(route.consumes)
  THEN Overload(s.consumes, route.consumes)
  ELSE DetectedConsumes(route, s)

\* out.produces once the user defined values have been applied
DeclaredProduces(route, s) ==
  IF Truthy(s.produces) \/ Truthy(route.produces)
  THEN Overload(s.produces, route.produces)
  ELSE Arr(<<>>)

\* the forEach body over pathStructures.parameters: the item it leaves
InferRequired(item, path) ==
  LET inferred == IF "required" \notin DOMAIN item /\ RegexpTest(item.name, path)
                  THEN item @@ [required |-> TRUE]
                  ELSE item
  IN IF "required" \in DOMAIN inferred /\ inferred.required = FALSE
     THEN [k \in DOMAIN inferred \ {"required"} |-> inferred[k]]
     ELSE inferred

\* the warning the forEach body logs for the item it leaves
OptionalWarning(item, path) ==
  IF "required" \notin DOMAIN item \/ ~item.required
  THEN <<LogEntry(WarningTags, MsgOptionalParam, path, item.name)>>
  ELSE <<>>

RECURSIVE OptionalWarnings(_, _)
OptionalWarnings(items, path) ==
  IF items = <<>> THEN <<>>
  ELSE OptionalWarning(Head(items), path) \o OptionalWarnings(Tail(items), path)

\* pathStructures.parameters
PathParameters(route, s) ==
  LET pathJoi == GetJOIObj(route, "pathParams")
      path == ResolvedPath(route, s)
  IN IF HasJoiChildren(pathJoi)
     THEN LET ps == GetSwaggerStructures(pathJoi, "path", FALSE, FALSE).parameters
          IN [k \in 1..Len(ps) |-> InferRequired(ps[k], path)]
     ELSE <<>>

PathLog(route, s) ==
  LET pathJoi == GetJOIObj(route, "pathParams")
      path == ResolvedPath(route, s)
  IN IF HasJoiChildren(pathJoi)
     THEN OptionalWarnings(PathParameters(route, s), path)
     ELSE TestParameterError(pathJoi, "params", path)

\* the filter callback: an accept header with an enum is taken out
IsAcceptEnum(header) ==
  ToLowerCase(header.name) = S_accept /\ "enum" \in DOMAIN header

\* headerStructures.parameters, before and after the accept filter
RawHeaderParameters(route) ==
  LET headerJoi == GetJOIObj(route, "headerParams")
  IN IF HasJoiChildren(headerJoi)
     THEN GetSwaggerStructures(headerJoi, "header", FALSE, FALSE).parameters
     ELSE <<>>

\* faulty variant: the accept header is never taken out
HeaderParametersKept(route, s) == RawHeaderParameters(route)

HeaderParameters(route, s) ==
  IF s.acceptToProduce = Bool(TRUE)
  THEN SelectSeq(RawHeaderParameters(route), LAMBDA h : ~IsAcceptEnum(h))
  ELSE RawHeaderParameters(route)

HeaderLog(route, s) ==
  LET headerJoi == GetJOIObj(route, "headerParams")
  IN IF HasJoiChildren(headerJoi) THEN <<>>
     ELSE TestParameterError(headerJoi, "headers", ResolvedPath(route, s))

\* out.produces after the accept filter: the last accept enum wins
OutProduces(route, s) ==
  LET accepts == SelectSeq(RawHeaderParameters(route), IsAcceptEnum)
  IN IF s.acceptToProduce = Bool(TRUE) /\ Len(accepts) > 0
     THEN LET header == accepts[Len(accepts)]
          IN Arr(SortFirstItem(header.enum, Get(header, "default")))
     ELSE DeclaredProduces(route, s)

\* queryStructures.parameters
QueryParameters(route) ==
  LET queryJoi == GetJOIObj(route, "queryParams")
  IN IF HasJoiChildren(queryJoi)
     THEN GetSwaggerStructures(queryJoi, "query", FALSE, FALSE).parameters
     ELSE <<>>

QueryLog(route, s) ==
  LET queryJoi == GetJOIObj(route, "queryParams")
  IN IF HasJoiChildren(queryJoi) THEN <<>>
     ELSE TestParameterError(queryJoi, "query", ResolvedPath(route, s))

\* faulty variant: the path parameters are placed before the header parameters
ConcatParametersPathFirst(header, path, query, payload) ==
  path \o header \o query \o payload

\* out.parameters.concat(header, path, query, payload)
ConcatParameters(header, path, query, payload) ==
  header \o path \o query \o payload

OutParameters(route, s) ==
  ConcatParameters(HeaderParameters(route, s), PathParameters(route, s),
                   QueryParameters(route), PayloadStructures(route, s).parameters)

\* what one pass of the forEach body logs, in order
RouteLog(route, s) ==
  PayloadLog(route, s) \o PathLog(route, s) \o HeaderLog(route, s)
  \o QueryLog(route, s)

\* the operation object buildRoutes assembles for one route, before pruning
OutObject(route, s) ==
  LET parameters == OutParameters(route, s)
      base == [summary |-> route.summary,
               operationId |-> Or(route.id, Str(CreateId(route.method, route.path))),
               description |-> OutDescription(route),
               parameters |-> Arr(parameters),
               produces |-> OutProduces(route, s),
               tags |-> Or(route.tags, route.groups),
               responses |-> ResponsesBuild(route.responses, route.responseSchema,
                                            route.responseStatus)]
      withConsumes == IF HasContentTypeHeader(parameters) THEN base
                      ELSE base @@ [consumes |-> DeclaredConsumes(route, s)]
      withSecurity == IF Truthy(route.security)
                      THEN withConsumes @@ [security |-> route.security]
                      ELSE withConsumes
      withOrder == IF Truthy(route.order)
                   THEN withSecurity @@ [xOrder |-> route.order]
                   ELSE withSecurity
  IN IF route.deprecated # Null
     THEN withOrder @@ [deprecated |-> route.deprecated]
     ELSE withOrder

\* the named definitions the properties collaborator registers for the route
RouteDefinitions(route, s) ==
  LET ref == Get(PayloadStructures(route, s).properties, "ref")
  IN IF Truthy(ref) THEN {ref.v} ELSE {}

\* faulty variant: the entry of the path is replaced, not extended
MergeOperationReplacing(paths, path, method, out) ==
  (path :> (ToLowerCase(method) :> out)) @@ paths

\* pathObj[path][method.toLowerCase()] = out
MergeOperation(paths, path, method, out) ==
  IF path \in DOMAIN paths
  THEN [paths EXCEPT ![path] = (ToLowerCase(method) :> out) @@ @]
  ELSE (path :> (ToLowerCase(method) :> out)) @@ paths

(* ---------------------------------------------------------------------- *)
(* Inputs: settings and route descriptors                                  *)
(* ---------------------------------------------------------------------- *)
\* the longest route list build is given
MaxRoutes == 2

P_item == <<"/","i","t","e","m","/",":","i","d">>
P_itemOpt == <<"/","i","t","e","m","/",":","i","d","?">>
P_itemBrace == <<"/","i","t","e","m","/","{","i","d","}">>
P_itemBraceOpt == <<"/","i","t","e","m","/","{","i","d","?","}">>
P_itemSub == <<"/","i","t","e","m","/",":","i","d","/","s","u","b">>
P_itemLonger == <<"/","i","t","e","m","/",":","i","d","x">>
P_apiItem == <<"/","a","p","i","/","i","t","e","m","/",":","i","d">>
P_v1Item == <<"/","v","1","/","i","t","e","m","/",":","i","d">>
P_other == <<"/","o","t","h","e","r">>
P_api == <<"/","a","p","i">>
P_v1 == <<"/","v","1">>

M_get == <<"g","e","t">>
M_GET == <<"G","E","T">>
M_Post == <<"P","o","s","t">>
M_delete == <<"D","E","L","E","T","E">>

N_id == <<"i","d">>
N_name == <<"n","a","m","e">>
N_age == <<"a","g","e">>
N_q == <<"q">>
N_file == <<"f","i","l","e">>
N_xid == <<"x","-","i","d">>
N_Accept == <<"A","c","c","e","p","t">>
N_ContentType == <<"C","o","n","t","e","n","t","-","T","y","p","e">>
K_form == <<"f","o","r","m">>
K_JSON == <<"J","S","O","N">>

\* a field with no flags
Plain(name, type) == Field(name, type, Undefined, Undefined, Undefined, {})

BaseSettings ==
  [basePath |-> S_slash, pathReplacements |-> <<>>, payloadType |-> Str(S_json),
   consumes |-> Undefined, produces |-> Undefined, acceptToProduce |-> Bool(FALSE)]

BaseRoute ==
  [path |-> P_item, method |-> M_get, summary |-> Str(<<"s">>),
   description |-> Str(<<"d">>),
   validate |-> Obj([params |-> JoiObject(<<Plain(N_id, "string")>>, <<>>)])]

\* record r with the fields of override replaced or added
With(r, override) == override @@ r

MT_json == "application/json"
MT_xml == "application/xml"
MT_text == "text/plain"

\* header schemas
H_accept ==
  JoiObject(<<Field(S_accept, "string", Undefined, Arr(<<MT_json, MT_xml>>),
                    Str(MT_xml), {}),
              Plain(N_xid, "string")>>, <<>>)
H_AcceptNoDefault ==
  JoiObject(<<Plain(N_xid, "string"),
              Field(N_Accept, "string", Undefined, Arr(<<MT_json, MT_xml>>),
                    Undefined, {})>>, <<>>)
H_acceptNoEnum == JoiObject(<<Plain(S_accept, "string")>>, <<>>)
H_acceptTwice ==
  JoiObject(<<Field(S_accept, "string", Undefined, Arr(<<MT_json, MT_xml>>),
                    Str(MT_xml), {}),
              Field(N_Accept, "string", Undefined, Arr(<<MT_text, MT_json>>),
                    Undefined, {})>>, <<>>)
H_acceptContentType ==
  JoiObject(<<Field(S_accept, "string", Undefined, Arr(<<MT_json, MT_xml>>),
                    Str(MT_xml), {}),
              Plain(N_ContentType, "string")>>, <<>>)
H_contentType == JoiObject(<<Plain(S_contentType, "string")>>, <<>>)
H_ContentType ==
  JoiObject(<<Plain(N_xid, "string"), Plain(N_ContentType, "string")>>, <<>>)
H_xid == JoiObject(<<Plain(N_xid, "string")>>, <<>>)

\* path schemas
R_id == JoiObject(<<Plain(N_id, "string")>>, <<>>)
R_idRequired ==
  JoiObject(<<Field(N_id, "string", Bool(TRUE), Undefined, Undefined, {})>>, <<>>)
R_idOptional ==
  JoiObject(<<Field(N_id, "string", Bool(FALSE), Undefined, Undefined, {})>>, <<>>)
R_idName == JoiObject(<<Plain(N_id, "string"), Plain(N_name, "string")>>, <<>>)

\* query schemas: a plain object of fields, and a Joi object
Q_plain == Obj(<<Plain(N_q, "string")>>)
Q_joi == JoiObject(<<Plain(N_q, "string"), Plain(N_age, "number")>>, <<>>)

\* payload schemas
B_nameAge == JoiObject(<<Plain(N_name, "string"), Plain(N_age, "number")>>, <<>>)
B_labelled ==
  JoiObject(<<Plain(N_name, "string")>>, <<"U","s","e","r">>)
B_file ==
  JoiObject(<<Field(N_file, "file", Undefined, Undefined, Undefined,
                    {S_swaggerType})>>, <<>>)

\* validate: { query, params, headers, payload }
Validate(q, r, h, b) == Obj([query |-> q, params |-> r, headers |-> h, payload |-> b])

Input(s, r) == [settings |-> s, route |-> r]

\* every location with a schema of every kind
ParameterInputs ==
  { Input(With(BaseSettings, [acceptToProduce |-> Bool(a), payloadType |-> Str(k)]),
          With(BaseRoute, [validate |-> Validate(q, r, h, b)])) :
      a \in BOOLEAN, k \in {S_json, K_form},
      q \in {Undefined, Q_plain, Function},
      r \in {Undefined, R_id, Function},
      h \in {Undefined, H_accept, H_ContentType, Function, JoiString},
      b \in {Undefined, B_nameAge, Function} }

\* consumes and the payload kind, declared and detected
ConsumesInputs ==
  { Input(With(BaseSettings, [payloadType |-> sk, consumes |-> sc]),
          With(BaseRoute, [payloadType |-> rk, consumes |-> rc,
                           validate |-> Validate(Undefined, R_id, h, b)])) :
      sk \in {Undefined, Str(S_json), Str(K_form)},
      sc \in {Undefined, Arr(<<MT_xml>>)},
      rk \in {Undefined, Str(K_JSON), Str(K_form)},
      rc \in {Undefined, Arr(<<MT_text>>)},
      h \in {Undefined, H_contentType, H_ContentType},
      b \in {Undefined, B_nameAge, B_labelled, B_file, JoiString} }

\* the accept header and the produces list
AcceptInputs ==
  { Input(With(BaseSettings, [acceptToProduce |-> a, produces |-> sp]),
          With(BaseRoute, [produces |-> rp,
                           validate |-> Validate(Undefined, R_id, h, Undefined)])) :
      a \in {Undefined, Bool(FALSE), Bool(TRUE)},
      sp \in {Undefined, Arr(<<MT_text>>)},
      rp \in {Undefined, Arr(<<MT_text, MT_xml>>)},
      h \in {H_accept, H_AcceptNoDefault, H_acceptNoEnum, H_acceptTwice,
             H_acceptContentType, H_xid} }

\* path templates and the required flag of path parameters
PathInputs ==
  { Input(With(BaseSettings, [basePath |-> bp]),
          With(BaseRoute, [path |-> p,
                           validate |-> Validate(Undefined, r, Undefined, Undefined)])) :
      bp \in {S_slash, P_api},
      p \in {P_item, P_itemOpt, P_itemBrace, P_itemBraceOpt, P_itemSub,
             P_itemLonger, P_apiItem},
      r \in {R_id, R_idRequired, R_idOptional, R_idName, JoiString} }

\* paths, methods, the base path and the path replacements
MergeInputs ==
  { Input(With(BaseSettings, [basePath |-> bp, pathReplacements |-> pr]),
          With(BaseRoute, [path |-> p, method |-> m])) :
      bp \in {S_slash, P_api},
      pr \in {<<>>, <<[replaceIn |-> "endpoints", pattern |-> P_v1,
                       replacement |-> <<>>]>>,
              <<[replaceIn |-> "groups", pattern |-> P_v1,
                 replacement |-> <<>>]>>},
      p \in {P_item, P_apiItem, P_v1Item, P_other},
      m \in {M_get, M_GET, M_Post, M_delete} }

\* descriptive fields, the ordering hint and the deprecated flag
MetadataInputs ==
  { Input(With(BaseSettings, [payloadType |-> sk]),
          With(BaseRoute, [description |-> d, deprecated |-> dep, order |-> o,
                           id |-> id, tags |-> tg, group |-> Arr(<<"g">>),
                           security |-> tg])) :
      sk \in {Undefined, Str(S_json)},
      d \in {Undefined, Str(<<"d">>), Arr(<<"line 1", "line 2">>)},
      dep \in {Undefined, Null, Bool(FALSE), Bool(TRUE)},
      o \in {Undefined, Num(2)},
      id \in {Undefined, Str(<<"o","p">>)},
      tg \in {Undefined, Arr(<<"api">>)} }

Inputs ==
  ParameterInputs \cup ConsumesInputs \cup AcceptInputs \cup PathInputs
  \cup MergeInputs \cup MetadataInputs

\* the routes that follow the first one in a longer route list
FollowingRoutes ==
  { BaseRoute,
    With(BaseRoute, [method |-> M_Post, payloadType |-> Str(K_form),
                     deprecated |-> Bool(FALSE),
                     validate |-> Validate(Q_joi, R_idOptional, H_xid, B_nameAge)]),
    With(BaseRoute, [path |-> P_other, method |-> M_delete,
                     validate |-> Validate(Undefined, Function, Undefined, JoiString)]) }

RECURSIVE RouteLists(_)
RouteLists(n) ==
  IF n = 0 THEN {<<>>}
  ELSE LET shorter == RouteLists(n - 1)
       IN shorter \cup {Append(rs, r) : rs \in {x \in shorter : Len(x) = n - 1},
                                        r \in FollowingRoutes}

(* ---------------------------------------------------------------------- *)
(* The state machine: build(routes)                                        *)
(* ---------------------------------------------------------------------- *)
NoPaths == [p \in {} |-> [m \in {} |-> Undefined]]

Init ==
  /\ \E input \in Inputs :
       /\ settings = input.settings
       /\ routes \in {<<input.route>> \o rest : rest \in RouteLists(MaxRoutes - 1)}
  /\ routesData = <<>>
  /\ pc = "build"
  /\ i = 0
  /\ pathObj = NoPaths
  /\ log = <<>>
  /\ swagger = Undefined

\* build: the routes are normalised and buildRoutes is entered
Build ==
  /\ pc = "build"
  /\ routesData' = NormalizeRoutes(routes, settings)
  /\ log' = log \o NormalizeLog(routes)
  /\ pathObj' = NoPaths
  /\ swagger' = [definitions |-> {}, xAltDefinitions |-> {}]
  /\ i' = 0
  /\ pc' = "forEach"
  /\ UNCHANGED <<settings, routes>>

\* one pass of routes.forEach in buildRoutes; a TypeError ends the call
BuildRoute ==
  /\ pc = "forEach"
  /\ i < Len(routesData)
  /\ LET route == routesData[i + 1]
     IN IF RouteThrows(route, settings)
        THEN /\ pc' = "thrown"
             /\ UNCHANGED <<i, pathObj, log, swagger>>
        ELSE /\ log' = log \o RouteLog(route, settings)
             /\ swagger' = [swagger EXCEPT !.definitions =
                              @ \cup RouteDefinitions(route, settings)]
             /\ pathObj' = MergeOperation(pathObj, ResolvedPath(route, settings),
                             route.method,
                             DeleteEmptyProperties(OutObject(route, settings)))
             /\ i' = i + 1
             /\ pc' = "forEach"
  /\ UNCHANGED <<settings, routes, routesData>>

\* swagger.paths = pathObj; return swagger
Return ==
  /\ pc = "forEach"
  /\ i = Len(routesData)
  /\ swagger' = swagger @@ [paths |-> pathObj]
  /\ pc' = "done"
  /\ UNCHANGED <<settings, routes, routesData, i, pathObj, log>>

Next == Build \/ BuildRoute \/ Return

Spec == Init /\ [][Next]_vars

(* ---------------------------------------------------------------------- *)
(* Properties                                                              *)
(* ---------------------------------------------------------------------- *)
\* at least one route has been turned into an operation
Processed == pc \in {"forEach", "done"} /\ i >= 1

\* the operation the document holds for the k-th route
KeyOf(k) == ResolvedPath(routesData[k], settings)
OpOf(paths, k) == paths[KeyOf(k)][ToLowerCase(routes[k].method)]
ParametersOf(op) == IF "parameters" \in DOMAIN op THEN op.parameters.v ELSE <<>>
LastOp == OpOf(pathObj, i)
LastParameters == ParametersOf(LastOp)

\* a pass of the forEach body that completed, and what it logged
Step == pc = "forEach" /\ pc' = "forEach" /\ i' = i + 1
NewLog == SubSeq(log', Len(log) + 1, Len(log'))
Count(seq, Test(_)) == Len(SelectSeq(seq, Test))

\* the children of a normalised schema
ChildrenOf(schema) == IF schema.t = "joi" THEN schema.children ELSE <<>>

\* the payload kind in effect for the k-th route: the route's, else the settings'
EffectiveKind(k) == Or(Get(routes[k], "payloadType"), settings.payloadType)
KindIsJson(k) ==
  EffectiveKind(k).t = "string" /\ ToLowerCase(EffectiveKind(k).v) = S_json

LocationRank(in) ==
  CASE in = "header" -> 1
    [] in = "path" -> 2
    [] in = "query" -> 3
    [] in \in {"body", "formData"} -> 4

\* C1: in every emitted operation the parameters come in the order header,
\* path, query, payload (body or formData): no parameter of a later location
\* precedes one of an earlier location, and every location's parameters are
\* the fields of its schema in their order.
C1_ParameterOrder ==
  Processed =>
    /\ \A a, b \in 1..Len(LastParameters) :
         a < b => LocationRank(LastParameters[a].in) <= LocationRank(LastParameters[b].in)
    /\ \A loc \in {"path", "query"} :
         LET emitted == SelectSeq(LastParameters, LAMBDA q : q.in = loc)
             fields == ChildrenOf(routesData[i][IF loc = "path" THEN "pathParams"
                                                ELSE "queryParams"])
         IN /\ Len(emitted) = Len(fields)
            /\ \A k \in 1..Len(fields) : emitted[k].name = fields[k].name

\* C1 witness: an operation with parameters of all four locations
C1_Witness ==
  /\ Processed
  /\ \A loc \in {"header", "path", "query", "formData"} :
       \E k \in 1..Len(LastParameters) : LastParameters[k].in = loc

\* the k-th route's path schema has the field id with no required flag
IdUnflagged(k) ==
  \E n \in 1..Len(ChildrenOf(routesData[k].pathParams)) :
    LET f == ChildrenOf(routesData[k].pathParams)[n]
    IN f.name = N_id /\ f.required = Undefined

\* the emitted path parameter id of an operation
IdParameter(op) ==
  LET ps == ParametersOf(op)
  IN ps[CHOOSE n \in 1..Len(ps) : ps[n].in = "path" /\ ps[n].name = N_id]

\* the optional-parameter warnings about id under the path key
IsIdWarning(path, e) ==
  e.tags = WarningTags /\ e.text = MsgOptionalParam /\ e.path = path
  /\ e.subject = N_id

HasContentTypeParameter(op) ==
  \E n \in 1..Len(ParametersOf(op)) :
    /\ ParametersOf(op)[n].in = "header"
    /\ ToLowerCase(ParametersOf(op)[n].name) = S_contentType

\* the k-th route's payload schema carries the file-upload marker
HasFileMarker(k) ==
  \E n \in 1..Len(ChildrenOf(routesData[k].payloadParams)) :
    S_swaggerType \in ChildrenOf(routesData[k].payloadParams)[n].meta

\* C3 as stated: a consumes (produces) the route declares is the operation's
\* consumes (produces); otherwise a global one is; only when neither is
\* declared do the detected values appear.  The content-type rule of C4 is
\* left out of its scope.
C3_DeclaredWins ==
  Processed =>
    /\ ~HasContentTypeParameter(LastOp) /\ Truthy(Get(routes[i], "consumes")) =>
         "consumes" \in DOMAIN LastOp /\ LastOp.consumes = routes[i].consumes
    /\ Truthy(Get(routes[i], "produces")) =>
         "produces" \in DOMAIN LastOp /\ LastOp.produces = routes[i].produces

\* C4: an operation whose parameters hold a header parameter named
\* content-type (compared case-insensitively) has no consumes field, whatever
\* the payload kind, the file marker and the declared consumes are; without
\* such a parameter a non-empty consumes value stays in the operation.
C4_ContentTypeOverride ==
  Processed =>
    /\ HasContentTypeParameter(LastOp) => "consumes" \notin DOMAIN LastOp
    /\ ( /\ ~HasContentTypeParameter(LastOp)
         /\ \/ ~KindIsJson(i)
            \/ HasFileMarker(i)
            \/ settings.consumes.t = "array" /\ Len(settings.consumes.v) > 0 )
       => "consumes" \in DOMAIN LastOp /\ Len(LastOp.consumes.v) > 0

\* C4 witness: a Content-Type header beside a form payload with a file
\* marker and a global consumes, and an operation without consumes
C4_Witness ==
  /\ Processed
  /\ \E n \in 1..Len(LastParameters) :
       LastParameters[n].in = "header" /\ LastParameters[n].name = N_ContentType
  /\ ~KindIsJson(i) /\ HasFileMarker(i) /\ Truthy(settings.consumes)
  /\ "consumes" \notin DOMAIN LastOp

\* the payload-derived parameters of an operation
PayloadParametersOf(op) ==
  SelectSeq(ParametersOf(op), LAMBDA q : q.in \in {"body", "formData"})

\* no later rule replaces the consumes value of the payload rule for the
\* k-th route: no file marker, no declared consumes, no content-type header
ConsumesLeftAlone(k, op) ==
  /\ ~HasFileMarker(k)
  /\ ~Truthy(settings.consumes)
  /\ ~Truthy(Get(routes[k], "consumes"))
  /\ ~HasContentTypeParameter(op)

IsPayloadError(e) ==
  e.tags = ErrorTags /\ e.text = MsgNotJoiObject
  /\ e.subject = "payload form-urlencoded"

\* C5: with an effective payload kind (the route's, else the settings')
\* other than json, a payload schema with child fields gives one formData
\* parameter per field, registers no definition, and consumes is
\* form-urlencoded; with the kind json in any case it gives a single body
\* parameter that references a named definition, and the rule sets no
\* consumes; a non-json payload that is set but has no child fields gives no
\* payload parameter, exactly one error diagnostic, and consumes is
\* form-urlencoded.  The consumes value is the rule's where no later rule
\* (file marker, declared consumes, content-type header) replaces it.
C5_FormVsJson ==
  [][Step =>
       LET k == i'
           op == OpOf(pathObj', k)
           fields == ChildrenOf(routesData[k].payloadParams)
           payload == PayloadParametersOf(op)
       IN /\ ~KindIsJson(k) /\ Len(fields) > 0 =>
               /\ Len(payload) = Len(fields)
               /\ \A n \in 1..Len(fields) :
                    /\ payload[n].in = "formData"
                    /\ payload[n].name = fields[n].name
                    /\ "schema" \notin DOMAIN payload[n]
               /\ swagger'.definitions = swagger.definitions
               /\ ConsumesLeftAlone(k, op) =>
                    "consumes" \in DOMAIN op /\ op.consumes = Arr(<<FormUrlEncoded>>)
          /\ KindIsJson(k) /\ Len(fields) > 0 =>
               /\ Len(payload) = 1
               /\ payload[1].in = "body"
               /\ "ref" \in DOMAIN payload[1].schema
               /\ payload[1].schema.ref \in swagger'.definitions
               /\ ConsumesLeftAlone(k, op) => "consumes" \notin DOMAIN op
          /\ ~KindIsJson(k) /\ routesData[k].payloadParams # Null /\ Len(fields) = 0 =>
               /\ Len(payload) = 0
               /\ Count(NewLog, IsPayloadError) = 1
               /\ ConsumesLeftAlone(k, op) =>
                    "consumes" \in DOMAIN op /\ op.consumes = Arr(<<FormUrlEncoded>>)
    ]_vars

\* C5 witness: a form payload {name, age} emitted as the two formData
\* parameters name and age with consumes form-urlencoded
C5_Witness ==
  /\ Processed
  /\ ~KindIsJson(i)
  /\ routesData[i].payloadParams = B_nameAge
  /\ Len(PayloadParametersOf(LastOp)) = 2
  /\ PayloadParametersOf(LastOp)[1].name = N_name
  /\ PayloadParametersOf(LastOp)[2].name = N_age
  /\ PayloadParametersOf(LastOp)[2].in = "formData"
  /\ "consumes" \in DOMAIN LastOp /\ LastOp.consumes = Arr(<<FormUrlEncoded>>)

\* C6 as stated: build never throws, whatever the description, the payload
\* kind and the schemas of the routes are.
C6_NeverThrows == pc # "thrown"

\* C7 as stated: the operation carries deprecated exactly when the route's
\* flag is neither null nor absent, with the route's value, false included.
C7_DeprecatedKept ==
  Processed =>
    LET flag == Get(routes[i], "deprecated")
    IN IF flag \in {Undefined, Null}
       THEN "deprecated" \notin DOMAIN LastOp
       ELSE "deprecated" \in DOMAIN LastOp /\ LastOp.deprecated = flag

\* a field or parameter named accept, in any case, with an enum
IsAcceptField(f) == ToLowerCase(f.name) = S_accept /\ f.enum # Undefined
IsAcceptParameter(q) ==
  q.in = "header" /\ ToLowerCase(q.name) = S_accept /\ "enum" \in DOMAIN q

\* the enum with the default first and the rest in their order
DefaultFirst(f) ==
  IF f.default = Undefined THEN f.enum.v
  ELSE <<f.default.v>> \o SelectSeq(f.enum.v, LAMBDA x : x # f.default.v)

\* C8: with acceptToProduce true, a header field named accept (in any case)
\* with an enum makes produces that enum with the default first (enum
\* [json, xml] with default xml gives [xml, json]) and no such parameter is
\* emitted; with the flag not true, or without such a field, every header
\* field is emitted and produces is the declared value or absent.
C8_AcceptToProduces ==
  Processed =>
    LET fields == ChildrenOf(routesData[i].headerParams)
        accepts == SelectSeq(fields, IsAcceptField)
        headers == SelectSeq(LastParameters, LAMBDA q : q.in = "header")
    IN IF settings.acceptToProduce = Bool(TRUE) /\ Len(accepts) > 0
       THEN /\ "produces" \in DOMAIN LastOp
            /\ LastOp.produces = Arr(DefaultFirst(accepts[Len(accepts)]))
            /\ routesData[i].headerParams = H_accept =>
                 LastOp.produces = Arr(<<MT_xml, MT_json>>)
            /\ \A n \in 1..Len(LastParameters) : ~IsAcceptParameter(LastParameters[n])
            /\ Len(headers) = Len(fields) - Len(accepts)
       ELSE /\ Len(headers) = Len(fields)
            /\ \A n \in 1..Len(fields) : headers[n].name = fields[n].name
            /\ LET declared == Or(routesData[i].produces, settings.produces)
               IN IF Truthy(declared)
                  THEN "produces" \in DOMAIN LastOp /\ LastOp.produces = declared
                  ELSE "produces" \notin DOMAIN LastOp

\* C8 witness: accept with enum [json, xml] and default xml under the flag:
\* produces [xml, json], the accept parameter gone, x-id kept
C8_Witness ==
  /\ Processed
  /\ settings.acceptToProduce = Bool(TRUE)
  /\ routesData[i].headerParams = H_accept
  /\ LastOp.produces = Arr(<<MT_xml, MT_json>>)
  /\ \E n \in 1..Len(LastParameters) : LastParameters[n].name = N_xid
  /\ \A n \in 1..Len(LastParameters) : LastParameters[n].name # S_accept

\* the (path, method) entries of a path map
Entries(paths) ==
  UNION {{<<p, m>> : m \in DOMAIN paths[p]} : p \in DOMAIN paths}

\* C9: once buildRoutes has processed the first i routes, the path map holds
\* an entry under the resolved path and the lowercase method of each of them
\* and no other entry, every method key is lowercase, methods of one path
\* stay side by side, and the returned document carries that map.
C9_MergedPaths ==
  pc \in {"forEach", "done"} =>
    /\ Entries(pathObj) = {<<KeyOf(k), ToLowerCase(routes[k].method)>> : k \in 1..i}
    /\ \A e \in Entries(pathObj) : e[2] = ToLowerCase(e[2])
    /\ pc = "done" => i = Len(routes) /\ swagger.paths = pathObj

\* C9 witness: two routes of the same path with different methods, both kept
C9_Witness ==
  /\ pc = "done"
  /\ \E p \in DOMAIN swagger.paths : Cardinality(DOMAIN swagger.paths[p]) = 2
  /\ \E k \in 1..Len(routes) : routes[k].method # ToLowerCase(routes[k].method)

\* the k-th route declares a function validator for the location
DeclaresFunction(k, location) ==
  LET validate == Get(routes[k], "validate")
  IN validate # Undefined /\ Get(validate.v, location) = Function

\* the schema the k-th route declares for the location
DeclaredSchema(k, location) == Get(Get(routes[k], "validate").v, location)

IsFunctionWarning(e) == e.tags = WarningTags /\ e.text = MsgFunctionNotSupported
IsFunctionError(e) == e.tags = ErrorTags /\ e.text = MsgFunctionRemoved

\* the canonical form of a schema that is no function: nothing for a missing
\* one, a Joi object of the same fields for a plain object, else itself
Canonical(schema) ==
  CASE schema = Undefined -> Null
    [] schema.t = "object" ->
         [t |-> "joi", type |-> "object", children |-> schema.v, label |-> <<>>]
    [] OTHER -> schema

\* C10: build gives one normalised route per route, in order; a function
\* validator for path becomes null, logs one ['validation','error'] and the
\* route emits no path parameter; for query and header it becomes an object
\* schema with the single string field 'Hidden Model' and for payload a
\* childless object schema labelled 'Hidden Model', each logging one
\* ['validation','warning']; any other schema is only brought to canonical
\* form and logs nothing.
C10_FunctionValidators ==
  pc # "build" =>
    /\ Len(routesData) = Len(routes)
    /\ \A k \in 1..Len(routes) :
         /\ routesData[k].method = ToUpperCase(routes[k].method)
         /\ routesData[k].summary = routes[k].summary
         /\ IF DeclaresFunction(k, "params")
            THEN routesData[k].pathParams = Null
            ELSE routesData[k].pathParams = Canonical(DeclaredSchema(k, "params"))
         /\ \A loc \in {"query", "headers"} :
              LET got == routesData[k][IF loc = "query" THEN "queryParams"
                                       ELSE "headerParams"]
              IN IF DeclaresFunction(k, loc)
                 THEN /\ got.t = "joi" /\ got.type = "object"
                      /\ Len(got.children) = 1
                      /\ got.children[1].name = S_hiddenModel
                      /\ got.children[1].type = "string"
                 ELSE got = Canonical(DeclaredSchema(k, loc))
         /\ IF DeclaresFunction(k, "payload")
            THEN /\ routesData[k].payloadParams.t = "joi"
                 /\ routesData[k].payloadParams.type = "object"
                 /\ routesData[k].payloadParams.children = <<>>
                 /\ routesData[k].payloadParams.label = S_hiddenModel
            ELSE routesData[k].payloadParams = Canonical(DeclaredSchema(k, "payload"))
    /\ Count(log, IsFunctionError)
         = Cardinality({k \in 1..Len(routes) : DeclaresFunction(k, "params")})
    /\ Count(log, IsFunctionWarning)
         = Cardinality({<<k, loc>> \in (1..Len(routes)) \X {"query", "headers", "payload"} :
                          DeclaresFunction(k, loc)})
    /\ Processed /\ DeclaresFunction(i, "params") =>
         \A n \in 1..Len(LastParameters) : LastParameters[n].in # "path"

\* C10 witness: a route with a function validator in all four locations,
\* normalised and turned into an operation
C10_Witness ==
  /\ Processed
  /\ \A loc \in {"query", "params", "headers", "payload"} : DeclaresFunction(i, loc)
  /\ routesData[i].pathParams = Null
  /\ Count(log, IsFunctionError) = 1
  /\ Count(log, IsFunctionWarning) = 3

====
